---- MODULE Spec2Model ----
(***************************************************************************)
(* Model of lenskit.algorithms (src/lenskit/algorithms/__init__.py):       *)
(* the Algorithm base (get_params, save, load), the Predictor.predict      *)
(* aggregator and Recommender.adapt.                                       *)
(*                                                                         *)
(* pandas objects are modelled by what the calls in predict do to them:    *)
(* a table is a sequence of rows [label, user, item]; a Series is a        *)
(* sequence of entries (index label, value) with a name; the result of     *)
(* groupby(...).apply is either the concatenation of the per-group Series  *)
(* or, when every group returned the same index, one stacked DataFrame     *)
(* with a row per group.                                                   *)
(***************************************************************************)
EXTENDS Integers, Sequences, FiniteSets, TLC

VARIABLES
    \* ---- Predictor.predict ----
    pairs,      \* the caller's table: sequence of rows [label, user, item]
    pairs0,     \* the table as the caller passed it (history)
    badUsers,   \* users for which predict_for_user raises
    unknown,    \* items the fitted model has no score for
    byRef,      \* predict_for_user returns the Series held in the fitted state
    series,     \* Series objects: id -> [name, data]; ids of Users are the fitted state
    series0,    \* the fitted state before the call (history)
    ratings,    \* the ratings argument of the predict call
    pc,         \* position in predict: "idle", "apply", "done", "error"
    groups,     \* the groups of groupby('user', sort=False), in iteration order
    gi,         \* index of the next group handed to upred
    parts,      \* the Series upred returned, one per group
    calls,      \* log of predict_for_user invocations: [user, items]
    handed,     \* log of objects predict_for_user handed back: [id, name]
    out,        \* the value predict returned
    err,        \* the error predict ended with
    \* ---- Algorithm instances ----
    heap,       \* the instances: sequence of [cls, dict], an instance's id is its position
    files,      \* what save wrote: location -> [blob, from] or None
    last,       \* the last get_params / save / load call and what it returned
    log         \* the Recommender.adapt (or load) calls made so far: [arg, res]

predictVars == <<pairs, pairs0, badUsers, unknown, byRef, series, series0, ratings,
                 pc, groups, gi, parts, calls, handed, out, err>>

algoVars == <<heap, files, last, log>>

vars == <<predictVars, algoVars>>

\* ---------------------------------------------------------------------------
\* Bounds and input domains
\* ---------------------------------------------------------------------------
MaxLen == 3
MaxObj == 3
MaxLoads == 1
MaxAdapt == 3

Users == {1, 2}
Items == {10, 20}
Labels == {0, 1, 2}

NaN == 0
None == [kind |-> "None"]
NoCall == [op |-> "none"]

\* what a caller may pass as ratings: nothing, an empty table, a table with rows
RatingsArgs == {None, [kind |-> "DataFrame", rows |-> 0], [kind |-> "DataFrame", rows |-> 1]}

\* The score the fitted model holds for (u, i); distinct pairs get distinct scores.
Score(u, i) == u * 100 + i

\* the tables handed to predict: one to MaxLen rows, any row labels (repeated
\* or not), users and items in any order
Rows == [label : Labels, user : Users, item : Items]
Tables == UNION {[1..n -> Rows] : n \in 1..MaxLen}

\* ---------------------------------------------------------------------------
\* Sequence helpers
\* ---------------------------------------------------------------------------
RECURSIVE Flatten(_)
Flatten(ss) ==
    IF ss = <<>> THEN <<>> ELSE Head(ss) \o Flatten(Tail(ss))

RECURSIVE Unique(_)
\* Series.unique() / the group keys of groupby(sort=False): first-appearance order
Unique(s) ==
    IF s = <<>> THEN <<>>
    ELSE LET r == Unique(SubSeq(s, 1, Len(s) - 1))
             x == s[Len(s)]
         IN  IF \E j \in 1..Len(r) : r[j] = x THEN r ELSE Append(r, x)

Column(df, c) == [k \in 1..Len(df) |-> df[k][c]]

RECURSIVE SortedSeq(_)
SortedSeq(S) ==
    IF S = {} THEN <<>>
    ELSE LET m == CHOOSE x \in S : \A y \in S : x <= y
         IN  <<m>> \o SortedSeq(S \ {m})

\* ---------------------------------------------------------------------------
\* The fitted state and predict_for_user
\* ---------------------------------------------------------------------------
\* The score collection the fitted state holds for user u.
Stored(u, unk) ==
    [name |-> "score",
     data |-> [k \in 1..Len(SortedSeq(Items \ unk)) |->
                  [item |-> SortedSeq(Items \ unk)[k],
                   value |-> Score(u, SortedSeq(Items \ unk)[k])]]]

FreshId(k) == 100 + k

\* predict_for_user(user, items): a Series of scores indexed by item id,
\* one entry per requested item the model knows.  It is either the stored
\* collection itself (id = user) or a new Series (id = FreshId(k)).
PredictForUser(ser, u, items, ref, k) ==
    IF ref
    THEN [id |-> u, series |-> ser]
    ELSE LET want == Unique(items)
             data == SelectSeq(ser[u].data,
                               LAMBDA e : \E j \in 1..Len(want) : want[j] = e.item)
         IN  [id |-> FreshId(k),
              series |-> [x \in DOMAIN ser \cup {FreshId(k)} |->
                            IF x = FreshId(k)
                            THEN [name |-> "score", data |-> data]
                            ELSE ser[x]]]

\* ---------------------------------------------------------------------------
\* pandas operations used by predict
\* ---------------------------------------------------------------------------
\* groupby('user') with the default sort=True: groups in key order
GroupBy_Sorted(p) ==
    LET keys == SortedSeq({p[k].user : k \in 1..Len(p)})
    IN  [k \in 1..Len(keys) |-> SelectSeq(p, LAMBDA r : r.user = keys[k])]

\* pairs.loc[:, ['user', 'item']].groupby('user', sort=False)
GroupBy(p) ==
    LET keys == Unique(Column(p, "user"))
    IN  [k \in 1..Len(keys) |-> SelectSeq(p, LAMBDA r : r.user = keys[k])]

\* df.join(preds, on='item', how='left').prediction : for every row of df, in
\* order, one entry per entry of preds indexed by the row's item, NaN if none.
JoinRow(r, data) ==
    LET m == SelectSeq(data, LAMBDA e : e.item = r.item)
    IN  IF m = <<>> THEN << [label |-> r.label, value |-> NaN] >>
        ELSE [k \in 1..Len(m) |-> [label |-> r.label, value |-> m[k].value]]

JoinLeft(df, data) == Flatten([k \in 1..Len(df) |-> JoinRow(df[k], data)])

\* groupby.apply wraps the list of Series the function returned: Series with
\* differing indexes are concatenated; Series that all carry the same index
\* are stacked into a DataFrame with one row per group.
AllIndexedSame(ps) ==
    \A k \in 1..Len(ps) : Column(ps[k], "label") = Column(ps[1], "label")

WrapApplied(ps) ==
    IF AllIndexedSame(ps)
    THEN [kind |-> "DataFrame",
          index |-> [k \in 1..Len(ps) |-> k - 1],      \* after reset_index(drop=True)
          columns |-> Column(ps[1], "label"),
          values |-> [k \in 1..Len(ps) |-> Column(ps[k], "value")]]
    ELSE [kind |-> "Series",
          index |-> Column(Flatten(ps), "label"),      \* after reset_index(level='user', drop=True)
          values |-> Column(Flatten(ps), "value")]

\* positions of the index entries equal to label l, in index order
Positions(index, l) ==
    SelectSeq([k \in 1..Len(index) |-> k], LAMBDA k : index[k] = l)

\* res.loc[labels]: for every requested label, in order, every row carrying
\* that label; KeyError when a requested label is not in the index.
Loc(res, labels) ==
    IF \E j \in 1..Len(labels) : Positions(res.index, labels[j]) = <<>>
    THEN [ok |-> FALSE, error |-> "KeyError"]
    ELSE LET pos == Flatten([j \in 1..Len(labels) |-> Positions(res.index, labels[j])])
         IN  [ok |-> TRUE,
              value |-> [res EXCEPT !.index = [k \in 1..Len(pos) |-> res.index[pos[k]]],
                                    !.values = [k \in 1..Len(pos) |-> res.values[pos[k]]]]]

\* ---------------------------------------------------------------------------
\* Predictor.predict
\* ---------------------------------------------------------------------------
\* The fitted predictors predict is run against: one that scores every user
\* (any set of items unknown to it, handing back its own Series or a new
\* one), and one that raises for one user.
FittedStates ==
    {m \in [bad : {{}} \cup {{u} : u \in Users}, unknown : SUBSET Items, ref : BOOLEAN] :
        m.bad # {} => (m.unknown = {} /\ ~m.ref)}

InitPredict ==
    /\ pairs \in Tables
    /\ pairs0 = pairs
    /\ \E m \in FittedStates :
          /\ badUsers = m.bad
          /\ unknown = m.unknown
          /\ byRef = m.ref
    /\ series = [u \in Users |-> Stored(u, unknown)]
    /\ series0 = series
    /\ ratings = None
    /\ pc = "idle"
    /\ groups = <<>>
    /\ gi = 0
    /\ parts = <<>>
    /\ calls = <<>>
    /\ handed = <<>>
    /\ out = None
    /\ err = None
    /\ heap = <<>>
    /\ files = <<>>
    /\ last = NoCall
    /\ log = <<>>

\* `if ratings:`-style test that lets an empty override through
OverrideGiven_NonEmpty(r) == r # None /\ r.rows > 0

\* line 108: if ratings is not None
OverrideGiven(r) == r # None

\* predict(pairs, ratings) is called: the check of lines 108-109, then the
\* groupby of line 119 forms the groups
Predict(r) ==
    /\ pc = "idle"
    /\ ratings' = r
    /\ IF OverrideGiven(r)
       THEN /\ pc' = "error"
            /\ err' = [kind |-> "NotImplementedError"]
            /\ UNCHANGED <<groups, gi>>
       ELSE /\ pc' = "apply"
            /\ groups' = GroupBy(pairs)
            /\ gi' = 1
            /\ err' = err
    /\ UNCHANGED <<pairs, pairs0, badUsers, unknown, byRef, series, series0,
                   parts, calls, handed, out>>
    /\ UNCHANGED algoVars

\* upred(df) for the next group, predict_for_user returning: lines 111-117
Upred ==
    /\ pc = "apply"
    /\ gi <= Len(groups)
    /\ LET df == groups[gi]
           user == Unique(Column(df, "user"))[1]
           items == Column(df, "item")
       IN  /\ user \notin badUsers
           /\ LET r == PredictForUser(series, user, items, byRef, gi)
                  named == [r.series EXCEPT ![r.id].name = "prediction"]
              IN  /\ calls' = Append(calls, [user |-> user, items |-> items])
                  /\ handed' = Append(handed, [id |-> r.id, name |-> r.series[r.id].name])
                  /\ series' = named
                  /\ parts' = Append(parts, JoinLeft(df, named[r.id].data))
    /\ gi' = gi + 1
    /\ UNCHANGED <<pairs, pairs0, badUsers, unknown, byRef, series0, ratings, pc,
                   groups, out, err>>
    /\ UNCHANGED algoVars

\* An error raised inside upred is caught nowhere in lines 111-122: it ends
\* apply and predict, and no further group is handed to upred.
RaiseOutcome_Suppress(g) == [pc |-> "apply", gi |-> g + 1]

RaiseOutcome(g) == [pc |-> "error", gi |-> g]

\* upred(df) for the next group, predict_for_user raising
UpredRaise ==
    /\ pc = "apply"
    /\ gi <= Len(groups)
    /\ LET df == groups[gi]
           user == Unique(Column(df, "user"))[1]
           items == Column(df, "item")
       IN  /\ user \in badUsers
           /\ calls' = Append(calls, [user |-> user, items |-> items])
           /\ err' = [kind |-> "PredictForUserError", user |-> user]
    /\ pc' = RaiseOutcome(gi).pc
    /\ gi' = RaiseOutcome(gi).gi
    /\ UNCHANGED <<pairs, pairs0, badUsers, unknown, byRef, series, series0, ratings,
                   groups, parts, handed, out>>
    /\ UNCHANGED algoVars

\* apply has run every group: lines 119-122
PredictEnd ==
    /\ pc = "apply"
    /\ gi > Len(groups)
    /\ LET res == WrapApplied(parts)
           sel == Loc(res, Column(pairs, "label"))
       IN  IF sel.ok
           THEN /\ pc' = "done"
                /\ out' = sel.value
                /\ err' = err
           ELSE /\ pc' = "error"
                /\ err' = [kind |-> sel.error]
                /\ out' = out
    /\ UNCHANGED <<pairs, pairs0, badUsers, unknown, byRef, series, series0, ratings,
                   groups, gi, parts, calls, handed>>
    /\ UNCHANGED algoVars

NextPredict ==
    \/ \E r \in RatingsArgs : Predict(r)
    \/ Upred
    \/ UpredRaise
    \/ PredictEnd

SpecPredict == InitPredict /\ [][NextPredict]_vars

\* ---------------------------------------------------------------------------
\* Algorithm instances
\* ---------------------------------------------------------------------------
\* A value held in an attribute: a plain value, or a reference to an instance
\* on the heap.  Only instances have a get_params method.
Plain(n) == [k |-> "plain", v |-> n]
Ref(o) == [k |-> "obj", v |-> o]

\* inspect.signature(self.__class__): the constructor parameter names of each
\* class, in declared order
Signature(cls) ==
    CASE cls = "Outer"      -> <<"a", "b">>
      [] cls = "Mid"        -> <<"c">>
      [] cls = "Inner"      -> <<"d">>
      [] cls = "ClashFirst" -> <<"b__c", "b">>
      [] cls = "ClashLast"  -> <<"b", "b__c">>
      [] OTHER              -> <<"predictor">>

ParamClasses == {"Outer", "Mid", "Inner", "ClashFirst", "ClashLast"}

EmptyDict == [x \in {} |-> None]

\* params[key] = value
Put(d, key, value) ==
    [x \in DOMAIN d \cup {key} |-> IF x = key THEN value ELSE d[x]]

\* a[name + "_" + k] = sv: a single-underscore separator
PutPrefixed_OneUnderscore(params, name, sps) ==
    [x \in DOMAIN params \cup {name \o "_" \o k : k \in DOMAIN sps} |->
        IF \E k \in DOMAIN sps : x = name \o "_" \o k
        THEN sps[CHOOSE k \in DOMAIN sps : x = name \o "_" \o k]
        ELSE params[x]]

\* lines 59-60: for k, sv in sps.items(): params[name + '__' + k] = sv
PutPrefixed(params, name, sps) ==
    [x \in DOMAIN params \cup {name \o "__" \o k : k \in DOMAIN sps} |->
        IF \E k \in DOMAIN sps : x = name \o "__" \o k
        THEN sps[CHOOSE k \in DOMAIN sps : x = name \o "__" \o k]
        ELSE params[x]]

\* line 57: deep and hasattr(value, 'get_params')
Recurse(deep, value) == deep /\ value.k = "obj"

RECURSIVE GetParams(_, _, _)
RECURSIVE ParamsLoop(_, _, _, _, _)
\* lines 53-60: the loop over the remaining constructor parameter names
ParamsLoop(h, o, deep, names, params) ==
    IF names = <<>> THEN params
    ELSE LET name == Head(names)
         IN  IF name \notin DOMAIN h[o].dict
             THEN ParamsLoop(h, o, deep, Tail(names), params)
             ELSE LET value == h[o].dict[name]
                      own == Put(params, name, value)
                  IN  ParamsLoop(h, o, deep, Tail(names),
                                 IF Recurse(deep, value)
                                 THEN PutPrefixed(own, name, GetParams(h, value.v, deep))
                                 ELSE own)

\* Algorithm.get_params(self, deep)
GetParams(h, o, deep) == ParamsLoop(h, o, deep, Signature(h[o].cls), EmptyDict)

\* no predict call is part of the specifications of the instance operations
NoPredict ==
    /\ pairs = <<>>
    /\ pairs0 = <<>>
    /\ badUsers = {}
    /\ unknown = {}
    /\ byRef = FALSE
    /\ series = <<>>
    /\ series0 = <<>>
    /\ ratings = None
    /\ pc = "none"
    /\ groups = <<>>
    /\ gi = 0
    /\ parts = <<>>
    /\ calls = <<>>
    /\ handed = <<>>
    /\ out = None
    /\ err = None

\* ---- get_params over chains of nested instances ----
\* the instance get_params is called on: the head of the chain
Root == 1

\* what the constructor of instance number k may have stored under a
\* parameter name: a plain value, or the next instance
ValuesAt(k) == {Plain(k)} \cup (IF k < MaxObj THEN {Ref(k + 1)} ELSE {})

Names(sig) == {sig[j] : j \in 1..Len(sig)}

\* the attributes of instance k of class c: a nested instance stores every
\* constructor parameter, the root any subset of them (hasattr is false for
\* the others)
DictsAt(k, c) ==
    IF k = Root
    THEN UNION {[S -> ValuesAt(k)] : S \in SUBSET Names(Signature(c))}
    ELSE [Names(Signature(c)) -> ValuesAt(k)]

ObjectsAt(k) == UNION {{[cls |-> c, dict |-> d] : d \in DictsAt(k, c)} : c \in ParamClasses}

RECURSIVE HeapsFrom(_)
HeapsFrom(k) ==
    IF k > MaxObj THEN {<<>>}
    ELSE {<<o>> \o t : o \in ObjectsAt(k), t \in HeapsFrom(k + 1)}

InitParams ==
    /\ NoPredict
    /\ heap \in HeapsFrom(1)
    /\ files = <<>>
    /\ last = NoCall
    /\ log = <<>>

\* Root.get_params(deep) is called
CallGetParams(deep) ==
    /\ last' = [op |-> "get_params", obj |-> Root, deep |-> deep,
                value |-> GetParams(heap, Root, deep)]
    /\ UNCHANGED <<heap, files, log>>
    /\ UNCHANGED predictVars

NextParams == \E deep \in BOOLEAN : CallGetParams(deep)

SpecParams == InitParams /\ [][NextParams]_vars

\* ---- save and load ----
Locs == {"model.pkl"}

RECURSIVE Pickle(_, _)
\* pickle.dump(self, f): the class of the instance and its whole __dict__,
\* with every instance it refers to written out in place
Pickle(h, o) ==
    [cls |-> h[o].cls,
     dict |-> [n \in DOMAIN h[o].dict |->
                  IF h[o].dict[n].k = "obj"
                  THEN [k |-> "blob", v |-> Pickle(h, h[o].dict[n].v)]
                  ELSE h[o].dict[n]]]

RECURSIVE Unpickle(_, _)
RECURSIVE UnpickleFields(_, _, _, _)
\* the attributes of an unpickled instance; a nested instance is built anew
UnpickleFields(h, bd, names, acc) ==
    IF names = {} THEN [heap |-> h, dict |-> acc]
    ELSE LET n == CHOOSE x \in names : TRUE
         IN  IF bd[n].k = "blob"
             THEN LET r == Unpickle(h, bd[n].v)
                  IN  UnpickleFields(r.heap, bd, names \ {n}, Put(acc, n, Ref(r.id)))
             ELSE UnpickleFields(h, bd, names \ {n}, Put(acc, n, bd[n]))

\* pickle.load(f): a new instance (and new nested instances) on the heap
Unpickle(h, blob) ==
    LET r == UnpickleFields(h, blob.dict, DOMAIN blob.dict, EmptyDict)
    IN  [heap |-> Append(r.heap, [cls |-> blob.cls, dict |-> r.dict]),
         id |-> Len(r.heap) + 1]

\* self.__dict__ = obj.__dict__ : the loaded state replaces the instance's own
Update_Replace(d, e) == e

\* line 86: self.__dict__.update(obj.__dict__)
Update(d, e) ==
    [x \in DOMAIN d \cup DOMAIN e |-> IF x \in DOMAIN e THEN e[x] ELSE d[x]]

\* the fit instance X (1), the fresh instance F (2) of the same class, and an
\* instance (3) that either may hold as parameter b
FieldNames == {"a", "b", "mean_", "extra_"}

FieldValues(o, n) ==
    IF n = "b" THEN {Plain(o), Ref(3)} ELSE {Plain(o)}

Instances(o) ==
    UNION {{[cls |-> "Outer", dict |-> d] :
               d \in {f \in [S -> {Plain(o), Ref(3)}] : \A n \in S : f[n] \in FieldValues(o, n)}} :
           S \in SUBSET FieldNames}

InitPersist ==
    /\ NoPredict
    /\ \E x \in Instances(1), f \in Instances(2) :
          /\ "mean_" \in DOMAIN x.dict
          /\ heap = <<x, f, [cls |-> "Mid", dict |-> [c |-> Plain(3)]]>>
    /\ files = [l \in Locs |-> None]
    /\ last = NoCall
    /\ log = <<>>

\* o.save(loc): lines 71-73
Save(o, loc) ==
    /\ files' = [files EXCEPT ![loc] = [kind |-> "file", blob |-> Pickle(heap, o), from |-> o]]
    /\ last' = [op |-> "save", target |-> o, loc |-> loc]
    /\ UNCHANGED <<heap, log>>
    /\ UNCHANGED predictVars

\* o.load(loc): lines 83-86
Load(o, loc) ==
    /\ Len(log) < MaxLoads
    /\ log' = Append(log, [arg |-> o, res |-> o])
    /\ IF files[loc] = None
       THEN /\ last' = [op |-> "load", ok |-> FALSE, error |-> "FileNotFoundError"]
            /\ heap' = heap
       ELSE LET r == Unpickle(heap, files[loc].blob)
            IN  /\ heap' = [r.heap EXCEPT ![o].dict = Update(@, r.heap[r.id].dict)]
                /\ last' = [op |-> "load", ok |-> TRUE, target |-> o,
                            from |-> files[loc].from, blob |-> files[loc].blob,
                            before |-> heap[o].dict]
    /\ UNCHANGED files
    /\ UNCHANGED predictVars

NextPersist ==
    \/ \E o \in {1, 2}, loc \in Locs : Save(o, loc)
    \/ \E o \in {1, 2}, loc \in Locs : Load(o, loc)

SpecPersist == InitPersist /\ [][NextPersist]_vars

\* ---- Recommender.adapt ----
AdaptClasses == {"Bias", "Popular", "Hybrid", "Other"}

\* the classes that implement the Recommender capability
RecommenderClasses == {"Popular", "Hybrid", "TopN"}

\* line 170: isinstance(algo, Recommender)
IsRecommender(h, o) == h[o].cls \in RecommenderClasses

\* TopN(algo): a new wrapper instance around algo
TopN(h, o) ==
    [heap |-> Append(h, [cls |-> "TopN", dict |-> [predictor |-> Ref(o)]]),
     id |-> Len(h) + 1]

\* adapt that wraps whatever it is given
adapt_AlwaysWrap(h, o) == TopN(h, o)

\* Recommender.adapt(algo): lines 167-173
adapt(h, o) ==
    IF IsRecommender(h, o) THEN [heap |-> h, id |-> o] ELSE TopN(h, o)

InitAdapt ==
    /\ NoPredict
    /\ heap \in UNION {[1..n -> [cls : AdaptClasses, dict : {EmptyDict}]] : n \in 1..2}
    /\ files = <<>>
    /\ last = NoCall
    /\ log = <<>>

\* Recommender.adapt(o) is called
Adapt(o) ==
    /\ Len(log) < MaxAdapt
    /\ heap' = adapt(heap, o).heap
    /\ log' = Append(log, [arg |-> o, res |-> adapt(heap, o).id])
    /\ UNCHANGED <<files, last>>
    /\ UNCHANGED predictVars

NextAdapt == \E o \in 1..Len(heap) : Adapt(o)

SpecAdapt == InitAdapt /\ [][NextAdapt]_vars

\* ---------------------------------------------------------------------------
\* Properties of predict
\* ---------------------------------------------------------------------------
Ended == pc \in {"done", "error"}

\* the predict call had no override and predict_for_user raised for no user
PlainCall == ratings = None /\ \A k \in 1..Len(pairs0) : pairs0[k].user \notin badUsers

\* the distinct users of the caller's table, in order of first appearance
FirstAppearance == Unique(Column(pairs0, "user"))

\* the items requested for user u, in input order
ItemsOf(u) == Column(SelectSeq(pairs0, LAMBDA r : r.user = u), "item")

\* the entries predict_for_user handed back for user u
HandedData(u) ==
    LET k == CHOOSE j \in 1..Len(calls) : calls[j].user = u
    IN  series[handed[k].id].data

Covered(u, i) == SelectSeq(HandedData(u), LAMBDA e : e.item = i) # <<>>

Returned(u, i) ==
    IF Covered(u, i)
    THEN SelectSeq(HandedData(u), LAMBDA e : e.item = i)[1].value
    ELSE NaN

\* C1: predict(P) without an override returns a sequence as long as P whose
\* entry i is the score predict_for_user returned for P[i], whatever the row
\* labels of P are.
C1_OrderPreservation ==
    (PlainCall /\ Ended) =>
        /\ pc = "done"
        /\ out.kind = "Series"
        /\ Len(out.values) = Len(pairs0)
        /\ \A k \in 1..Len(pairs0) :
              out.values[k] = Returned(pairs0[k].user, pairs0[k].item)

\* C2: when predict_for_user returns no entry for a requested item, predict
\* raises no error, keeps the output as long as the input and puts NaN in
\* every row of that (user, item).
C2_MissingItemPolicy ==
    (/\ PlainCall
     /\ Ended
     /\ \E k \in 1..Len(pairs0) : ~Covered(pairs0[k].user, pairs0[k].item)) =>
        /\ pc = "done"
        /\ out.kind = "Series"
        /\ Len(out.values) = Len(pairs0)
        /\ \A k \in 1..Len(pairs0) :
              ~Covered(pairs0[k].user, pairs0[k].item) => out.values[k] = NaN

\* C3: a predict call with a ratings override (empty or not) ends in
\* NotImplementedError before anything else happens: no grouping, no call of
\* predict_for_user, no result.
C3_UnsupportedOverride ==
    ratings # None =>
        /\ pc = "error"
        /\ err = [kind |-> "NotImplementedError"]
        /\ groups = <<>>
        /\ calls = <<>>
        /\ handed = <<>>
        /\ out = None

C3_Witness ==
    /\ ratings = [kind |-> "DataFrame", rows |-> 0]
    /\ pc = "error"
    /\ Len(pairs0) = MaxLen

\* C4: when predict_for_user raises for a user, predict ends with that error
\* and no result; predict_for_user was called once for each user up to the
\* failing one, in grouping order, and for no later user.
C4_FailFast ==
    err.kind = "PredictForUserError" =>
        /\ pc = "error"
        /\ out = None
        /\ err.user \in badUsers
        /\ calls[Len(calls)].user = err.user
        /\ \A k \in 1..Len(calls) : calls[k].user = FirstAppearance[k]
        /\ \A k \in 1..(Len(calls) - 1) : calls[k].user \notin badUsers

\* the first user fails and a second user is never scored
C4_Witness ==
    /\ err.kind = "PredictForUserError"
    /\ Len(FirstAppearance) = 2
    /\ Len(calls) = 1
    /\ err.user = FirstAppearance[1]

\* C8: in a successful predict(P), predict_for_user is called exactly once per
\* distinct user of P, in order of first appearance, each time with all the
\* items requested for that user in input order.
C8_StableGrouping ==
    pc = "done" =>
        /\ Len(calls) = Len(FirstAppearance)
        /\ \A k \in 1..Len(calls) :
              /\ calls[k].user = FirstAppearance[k]
              /\ calls[k].items = ItemsOf(calls[k].user)

\* users interleaved, the larger user id first
C8_Witness ==
    /\ pc = "done"
    /\ Column(pairs0, "user") = <<2, 1, 2>>
    /\ Column(pairs0, "item") = <<20, 10, 10>>
    /\ Len(calls) = 2

\* C10: predict changes neither the caller's table, nor the fitted state, nor
\* any object predict_for_user handed back.
C10_NoHiddenMutation ==
    /\ pairs = pairs0
    /\ \A u \in Users : series[u] = series0[u]
    /\ \A k \in 1..Len(handed) : series[handed[k].id].name = handed[k].name

\* ---------------------------------------------------------------------------
\* Properties of get_params
\* ---------------------------------------------------------------------------
\* the instance the last get_params call was made on has parameters a (plain)
\* and b (an instance with parameter c)
OuterCase ==
    /\ last.op = "get_params"
    /\ heap[last.obj].cls = "Outer"
    /\ DOMAIN heap[last.obj].dict = {"a", "b"}
    /\ heap[last.obj].dict["a"].k = "plain"
    /\ heap[last.obj].dict["b"].k = "obj"
    /\ heap[heap[last.obj].dict["b"].v].cls = "Mid"
    /\ DOMAIN heap[heap[last.obj].dict["b"].v].dict = {"c"}

\* ... and c is an instance with parameter d
DeeperCase ==
    /\ OuterCase
    /\ heap[heap[last.obj].dict["b"].v].dict["c"].k = "obj"
    /\ heap[heap[heap[last.obj].dict["b"].v].dict["c"].v].cls = "Inner"
    /\ DOMAIN heap[heap[heap[last.obj].dict["b"].v].dict["c"].v].dict = {"d"}

\* C5: for an instance with parameters a (plain) and b (an instance with
\* parameter c), get_params(deep=True) maps a and b to the attribute values
\* and b__c to the nested value (b__c__d likewise for deeper nesting);
\* get_params(deep=False) has exactly the keys a and b.
C5_DeepShallow ==
    OuterCase =>
        LET top == heap[last.obj].dict
            mid == heap[top["b"].v].dict
        IN  /\ last.value["a"] = top["a"]
            /\ last.value["b"] = top["b"]
            /\ ~last.deep => DOMAIN last.value = {"a", "b"}
            /\ last.deep => /\ "b__c" \in DOMAIN last.value
                            /\ last.value["b__c"] = mid["c"]
            /\ (last.deep /\ DeeperCase) =>
                   /\ "b__c__d" \in DOMAIN last.value
                   /\ last.value["b__c__d"] = heap[mid["c"].v].dict["d"]
                   /\ heap[mid["c"].v].dict["d"].k = "plain" =>
                          DOMAIN last.value = {"a", "b", "b__c", "b__c__d"}

C5_Witness ==
    /\ DeeperCase
    /\ last.deep
    /\ last.value["b__c__d"] = Plain(3)

\* C9: in get_params(deep=True) every top-level constructor parameter name
\* maps to the instance's own attribute of that name, and every flattened
\* entry parent__child maps to the nested instance's value: neither replaces
\* the other.
C9_NoKeyCollision ==
    (last.op = "get_params" /\ last.deep) =>
        LET d == heap[last.obj].dict
            sig == Names(Signature(heap[last.obj].cls))
        IN  /\ \A n \in sig \cap DOMAIN d : last.value[n] = d[n]
            /\ \A n \in sig \cap DOMAIN d :
                  d[n].k = "obj" =>
                      \A c \in DOMAIN GetParams(heap, d[n].v, TRUE) :
                          last.value[n \o "__" \o c] = GetParams(heap, d[n].v, TRUE)[c]

\* ---------------------------------------------------------------------------
\* Properties of adapt
\* ---------------------------------------------------------------------------
\* C6: adapt of a Recommender is that very instance, and adapt of what adapt
\* returned is again that very instance: no wrapper is ever put around a
\* Recommender.
C6_AdaptIdempotent ==
    /\ \A j \in 1..Len(log) :
          IsRecommender(heap, log[j].arg) => log[j].res = log[j].arg
    /\ \A j \in 1..Len(log) : \A k \in 1..Len(log) :
          log[k].arg = log[j].res => log[k].res = log[j].res
    /\ \A o \in 1..Len(heap) :
          heap[o].cls = "TopN" => ~IsRecommender(heap, heap[o].dict["predictor"].v)

\* a wrapper was made for a non-recommender and then handed to adapt again
C6_Witness ==
    \E j \in 1..Len(log) : \E k \in 1..Len(log) :
        /\ j < k
        /\ ~IsRecommender(heap, log[j].arg)
        /\ log[j].res # log[j].arg
        /\ log[k].arg = log[j].res
        /\ log[k].res = log[j].res

\* ---------------------------------------------------------------------------
\* Properties of save and load
\* ---------------------------------------------------------------------------
\* get_params(deep=True) with every instance written out in place
DeepParams(h, o) ==
    LET ps == GetParams(h, o, TRUE)
    IN  [n \in DOMAIN ps |->
            IF ps[n].k = "obj" THEN [k |-> "blob", v |-> Pickle(h, ps[n].v)] ELSE ps[n]]

\* the last call loaded into F what the fit instance X saved, and X is as it
\* was saved
RoundTrip ==
    /\ last.op = "load"
    /\ last.ok
    /\ last.from # last.target
    /\ "mean_" \in DOMAIN last.blob.dict
    /\ Pickle(heap, last.from) = last.blob

\* C7: after X.save(loc) and F.load(loc), for a fresh F of the same type with
\* any fields of its own, F's field state and get_params output equal X's.
C7_RoundTrip ==
    RoundTrip =>
        /\ Pickle(heap, last.target) = Pickle(heap, last.from)
        /\ DeepParams(heap, last.target) = DeepParams(heap, last.from)

\* C7 as amended: F has every field of X's saved state with X's value and
\* keeps its other fields as they were; F's field state and get_params output
\* equal X's when F had no field that X's state lacks.
C7_LoadMerges ==
    RoundTrip =>
        LET x == Pickle(heap, last.from).dict
            f == Pickle(heap, last.target).dict
        IN  /\ DOMAIN f = DOMAIN x \cup DOMAIN last.before
            /\ \A n \in DOMAIN x : f[n] = x[n]
            /\ \A n \in DOMAIN last.before \ DOMAIN x : heap[last.target].dict[n] = last.before[n]
            /\ DOMAIN last.before \subseteq DOMAIN x =>
                  /\ f = x
                  /\ DeepParams(heap, last.target) = DeepParams(heap, last.from)

\* F had a field of its own and other parameter values; X holds a nested instance
C7_Witness ==
    /\ RoundTrip
    /\ last.from = 1
    /\ "extra_" \in DOMAIN last.before \ DOMAIN heap[1].dict
    /\ "b" \in DOMAIN heap[1].dict
    /\ heap[1].dict["b"].k = "obj"
    /\ heap[2].dict["b"] # heap[1].dict["b"]
    /\ "a" \in DOMAIN last.before

====
